---- MODULE Spec2Model ----
(***************************************************************************)
(* Model of the MCP server's Element Repository                            *)
(* (src/services/mcp-server/element_repository.py): the authoritative map  *)
(* of versioned locator records, the approval workflow, the cache and the  *)
(* persisted JSON document; and of the Tool Registry                       *)
(* (src/services/mcp-server/tool_registry.py).                             *)
(*                                                                         *)
(* Specifications:                                                         *)
(*   Spec         every repository operation as one atomic action (each    *)
(*                holds the asyncio lock from its first to its last        *)
(*                statement);                                              *)
(*   SpecConc     add_version as tasks that may be suspended at every      *)
(*                await, to examine what the lock guarantees;              *)
(*   SpecGet      get_element as a task beside a writing add_version task; *)
(*   SpecReload   the operations together with loading the document again; *)
(*   SpecUsage    update_usage_stats on an element left by the workflow,   *)
(*                SpecUsageFair with the scheduled saves eventually run;   *)
(*   SpecCancel   add_version tasks cancelled by the timeout of call_tool, *)
(*                under the fairness of the event loop;                    *)
(*   SpecSearch   search_elements as a function of the map and the limit;  *)
(*   SpecCache    ElementRepositoryCache with its clock;                   *)
(*   SpecRegistry registration of tools and call_tool.                     *)
(***************************************************************************)
EXTENDS Integers, Sequences, FiniteSets, TLC

(***************************************************************************)
(* Bounds of the model.                                                    *)
(***************************************************************************)
\* add_version calls that may start on one element
MaxAddCalls == 1
\* update_usage_stats observations recorded on one element
MaxUsage == 1
\* observations recorded on one element when usage statistics are examined
MaxObservations == 4

\* names create_element is called with, and the names of all other calls
\* (one of them is never created)
ElementNames == {"a"}
Names == ElementNames \cup {"b"}
Creators == {"system", "admin", "developer"}
Approvers == {"admin"}
\* confidence scores in tenths: 0.6, 0.9
Confidences == {6, 9}
\* version numbers a caller may pass to approve_version
VersionArgs == (0 - (MaxAddCalls + 1)) .. (MaxAddCalls + 2)
Tasks == {1, 2}

VARIABLES
    elements,     \* ElementRepository._elements: name -> ElementRecord
    cache,        \* ElementRepository.cache._cache: name -> the entry's record
    storage,      \* the JSON document at storage_path
    save_tasks,   \* _save_to_storage tasks created by update_usage_stats, not yet run
    last,         \* the call that completed last, with its outcome
    add_calls,    \* per name: add_version calls made on the existing element
    lock,         \* ElementRepository._lock: 0 when free, else the holding task
    pc,           \* per task: position inside add_version
    loc,          \* per task: locals of the operation it runs
    observations  \* per name: <<position, success>> of each update_usage_stats
                  \* call that found an active version, in call order

repository_vars ==
    <<elements, cache, storage, save_tasks, last, add_calls, lock, pc, loc, observations>>

(***************************************************************************)
(* Parts of the server examined on their own: search_elements, the cache   *)
(* class with its clock, and the tool registry.  The repository operations *)
(* above abstract from them (the cache by `expired`), and leave their      *)
(* variables alone.                                                        *)
(***************************************************************************)
VARIABLES
    search,         \* a search_elements call: the map it runs on, limit, results
    cache_entries,  \* ElementRepositoryCache._cache: name -> cache_time
    access_times,   \* ElementRepositoryCache._access_times, in dict order:
                    \* a sequence of <<name, time>>
    max_size,       \* ElementRepositoryCache.max_size
    clock,          \* time.time()
    cache_call,     \* the last call on the cache and what it returned
    tools,          \* ToolRegistry._tools: name -> the function registered
    metadata,       \* ToolRegistry._metadata: name -> ToolMetadata
    categories,     \* ToolRegistry._categories: category -> list of names
    registry_call,  \* the last call on the registry and how it ended
    in_flight       \* tool name -> bodies of that tool still running on a
                    \* worker thread after their call_tool has ended

search_vars == <<search>>
cache_vars == <<cache_entries, access_times, max_size, clock, cache_call>>
registry_vars == <<tools, metadata, categories, registry_call, in_flight>>

unit_vars == <<search_vars, cache_vars, registry_vars>>

\* largest max_size a cache is built with, and the last instant of the clock
MaxSize == 2
MaxTime == 4

\* ElementRepositoryCache.ttl_seconds, in ticks of the clock
ttl_seconds == 2

\* no search_elements call is made
NoSearch == [records |-> <<>>, limit |-> 0, results |-> <<>>, returned |-> TRUE]

SearchInit == search = NoSearch

NoCacheCall == [op |-> "none", name |-> "", result |-> "None", evicted |-> {}]

\* ElementRepositoryCache.__init__(max_size = size)
CacheConstructed(size) ==
    /\ cache_entries = <<>>
    /\ access_times = <<>>
    /\ max_size = size
    /\ clock = 0
    /\ cache_call = NoCacheCall

\* the members of ToolCategory that tools are registered under here
ToolCategory == {"EXECUTION", "ELEMENT_REPOSITORY"}

\* a core tool (_register_core_tools) and a tool registered by a caller
ToolNames == {"run_action", "test_tool"}

\* tool bodies that may be left running on worker threads, per tool
MaxInFlight == 1

NoRegistryCall == [op |-> "none", name |-> "", outcome |-> "none",
                   validated |-> FALSE, body_started |-> FALSE]

\* ToolRegistry.__init__: no tool, an empty list for every category
RegistryInit ==
    /\ tools = <<>>
    /\ metadata = <<>>
    /\ categories = [c \in ToolCategory |-> <<>>]
    /\ registry_call = NoRegistryCall
    /\ in_flight = [n \in ToolNames |-> 0]

UnitsInit ==
    /\ SearchInit
    /\ CacheConstructed(MaxSize)
    /\ RegistryInit

vars == <<repository_vars, unit_vars>>

(***************************************************************************)
(* Enumerations and approval policy.                                       *)
(***************************************************************************)
LocatorStatus == {"ACTIVE", "PENDING", "DEPRECATED", "REJECTED", "DRAFT"}
ApprovalStatus == {"PENDING", "APPROVED", "REJECTED", "AUTO_APPROVED"}

\* auto_approval_rules["confidence_threshold"] = 0.9, in tenths
confidence_threshold == 9
trusted_creators == {"system", "admin"}

\* LocatorVersion(version=..., created_by=..., confidence_score=..., status=DRAFT)
LocatorVersion(version, created_by, confidence_score) ==
    [version |-> version,
     created_by |-> created_by,
     confidence_score |-> confidence_score,
     status |-> "DRAFT",
     approval_status |-> "PENDING",
     approved_by |-> "None",
     usage_count |-> 0,
     success_rate |-> <<0, 1>>]

\* a mutant of the policy: the trusted-creator rule is dropped
ShouldAutoApproveNoTrust(version) ==
    version.confidence_score >= confidence_threshold

\* a mutant of the policy: the threshold is 0.6 instead of 0.9
ShouldAutoApproveLowThreshold(version) ==
    \/ version.confidence_score >= 6
    \/ version.created_by \in trusted_creators

\* ApprovalWorkflow._should_auto_approve
ShouldAutoApprove(version) ==
    \/ version.confidence_score >= confidence_threshold
    \/ version.created_by \in trusted_creators

\* ApprovalWorkflow.submit_for_approval: the version with its approval fields set
SubmitForApproval(version) ==
    IF ShouldAutoApprove(version)
    THEN [version EXCEPT !.approval_status = "AUTO_APPROVED", !.approved_by = "system"]
    ELSE [version EXCEPT !.approval_status = "PENDING"]

(***************************************************************************)
(* Python list indexing: position (1-based) of seq[i] for a list of length *)
(* n, or 0 when Python raises IndexError.  Negative i counts from the end. *)
(***************************************************************************)
PyIndex(n, i) ==
    IF i >= 0
    THEN (IF i < n THEN i + 1 ELSE 0)
    ELSE (IF n + i >= 0 THEN n + i + 1 ELSE 0)

\* ElementRecord.get_active_version: position of the active version, 0 for None
GetActiveVersion(record) ==
    IF record.active_version > 0 /\ record.active_version <= Len(record.versions)
    THEN record.active_version
    ELSE 0

\* a mutant of the activation routine: the current active version is not demoted
ActivateVersionNoDemote(record, version) ==
    LET new == PyIndex(Len(record.versions), version - 1)
    IN  IF new = 0
        THEN [record |-> record, raised |-> TRUE]
        ELSE [record |-> [record EXCEPT !.versions[new].status = "ACTIVE",
                                        !.active_version = version],
              raised |-> FALSE]

\* a mutant of the activation routine: the current active version is sent
\* back to DRAFT
ActivateVersionToDraft(record, version) ==
    LET n == Len(record.versions)
        cur == PyIndex(n, record.active_version - 1)
        demoted ==
            IF record.active_version > 0 /\ cur > 0
            THEN [record EXCEPT !.versions[cur].status = "DRAFT"]
            ELSE record
        new == PyIndex(n, version - 1)
    IN  IF record.active_version > 0 /\ cur = 0
        THEN [record |-> record, raised |-> TRUE]
        ELSE IF new = 0
        THEN [record |-> demoted, raised |-> TRUE]
        ELSE [record |-> [demoted EXCEPT !.versions[new].status = "ACTIVE",
                                         !.active_version = version],
              raised |-> FALSE]

(***************************************************************************)
(* ElementRepository._activate_version on a record.  The result carries    *)
(* the record as the routine leaves it and whether it raised IndexError;   *)
(* assignments made before the raise stay.                                 *)
(***************************************************************************)
ActivateVersion(record, version) ==
    LET n == Len(record.versions)
        cur == PyIndex(n, record.active_version - 1)
        deprecated ==
            IF record.active_version > 0 /\ cur > 0
            THEN [record EXCEPT !.versions[cur].status = "DEPRECATED"]
            ELSE record
        new == PyIndex(n, version - 1)
    IN  IF record.active_version > 0 /\ cur = 0
        THEN [record |-> record, raised |-> TRUE]
        ELSE IF new = 0
        THEN [record |-> deprecated, raised |-> TRUE]
        ELSE [record |-> [deprecated EXCEPT !.versions[new].status = "ACTIVE",
                                            !.active_version = version],
              raised |-> FALSE]

(***************************************************************************)
(* Persistence: asdict + json.dump(default=str).  Enum members are not     *)
(* JSON values, so each is written as str(member), "Class.MEMBER"; a value *)
(* that is already a string (a status read back from the file) is written  *)
(* as it is.                                                               *)
(***************************************************************************)
EnumStr(class, member) ==
    IF member \notin LocatorStatus \cup ApprovalStatus
    THEN member
    ELSE IF class = "LocatorStatus"
    THEN CASE member = "ACTIVE" -> "LocatorStatus.ACTIVE"
           [] member = "PENDING" -> "LocatorStatus.PENDING"
           [] member = "DEPRECATED" -> "LocatorStatus.DEPRECATED"
           [] member = "REJECTED" -> "LocatorStatus.REJECTED"
           [] OTHER -> "LocatorStatus.DRAFT"
    ELSE CASE member = "PENDING" -> "ApprovalStatus.PENDING"
           [] member = "APPROVED" -> "ApprovalStatus.APPROVED"
           [] member = "REJECTED" -> "ApprovalStatus.REJECTED"
           [] OTHER -> "ApprovalStatus.AUTO_APPROVED"

SerializeVersion(v) ==
    [v EXCEPT !.status = EnumStr("LocatorStatus", v.status),
              !.approval_status = EnumStr("ApprovalStatus", v.approval_status)]

SerializeRecord(record) ==
    [versions |-> [i \in 1..Len(record.versions) |-> SerializeVersion(record.versions[i])],
     active_version |-> record.active_version]

\* ElementRepository._save_to_storage: the document written for a map
SaveToStorage(elems) ==
    [exists |-> TRUE,
     data |-> [n \in DOMAIN elems |-> SerializeRecord(elems[n])]]

\* _load_from_storage, lines 489-503: the record built from one element's
\* JSON.  LocatorVersion(**version_data) keeps every value as json.load
\* delivered it, so status and approval_status are the strings that were
\* written ("LocatorStatus.ACTIVE"), not enumeration members.
DeserializeRecord(element_data) ==
    [versions |-> [i \in 1..Len(element_data.versions) |-> element_data.versions[i]],
     active_version |-> element_data.active_version]

\* _load_from_storage, lines 481-507: the map after loading the document;
\* every name in the document is bound to a new record
LoadFromStorage(elems, store) ==
    IF ~store.exists
    THEN elems
    ELSE [n \in DOMAIN elems \cup DOMAIN store.data |->
             IF n \in DOMAIN store.data
             THEN DeserializeRecord(store.data[n])
             ELSE elems[n]]

(***************************************************************************)
(* The repository's cache.  put stores the record object it is given, not  *)
(* a copy: an entry is [record, alias], where alias says that the entry's  *)
(* record is the very object the map holds under that name.  max_size is   *)
(* 10000, far above the number of names, so put never evicts.              *)
(***************************************************************************)
\* a mutant of put: the entry holds a copy of the record
CachePutCopy(c, name, record) ==
    (name :> [record |-> record, alias |-> FALSE]) @@ c

\* ElementRepositoryCache.put, line 132: self._cache[name] = (record, time)
CachePut(c, name, record) ==
    (name :> [record |-> record, alias |-> TRUE]) @@ c

\* ElementRepositoryCache.invalidate / _evict
CacheInvalidate(c, name) == [n \in DOMAIN c \ {name} |-> c[n]]

\* Python object references: a write to a record of the map is seen through
\* every cache entry that holds the same object
Aliased(c, elems) ==
    [n \in DOMAIN c |-> IF c[n].alias THEN [c[n] EXCEPT !.record = elems[n]] ELSE c[n]]

\* a mutant of the lock: acquisition never waits
LockAlwaysAvailable == TRUE

\* asyncio.Lock: `async with self._lock` proceeds only when the lock is free
LockAvailable == lock = 0

NoCall == [op |-> "none", name |-> "", outcome |-> "none", ret |-> 0]

\* the record of a completed call: operation, element name, how it ended
\* (a return value or the exception raised) and the version number returned
Call(op, name, outcome, ret) ==
    [op |-> op, name |-> name, outcome |-> outcome, ret |-> ret]

NoLocals == [name |-> "", created_by |-> "", confidence_score |-> 0,
             next_version |-> 0, version |-> LocatorVersion(0, "", 0),
             include_inactive |-> FALSE]

\* ElementRepository.__init__: empty map, empty cache, free lock; no file yet
RepositoryInit ==
    /\ elements = <<>>
    /\ cache = <<>>
    /\ storage = [exists |-> FALSE, data |-> <<>>]
    /\ save_tasks = 0
    /\ last = NoCall
    /\ add_calls = [n \in Names |-> 0]
    /\ lock = 0
    /\ pc = [t \in Tasks |-> "idle"]
    /\ loc = [t \in Tasks |-> NoLocals]
    /\ observations = [n \in Names |-> <<>>]

Init ==
    /\ RepositoryInit
    /\ UnitsInit

(***************************************************************************)
(* success_rate is kept as an exact fraction <<numerator, denominator>> in *)
(* lowest terms (floating-point rounding is not modelled).                 *)
(***************************************************************************)
RECURSIVE Gcd(_, _)
Gcd(x, y) == IF y = 0 THEN x ELSE Gcd(y, x % y)

Fraction(num, den) ==
    IF num = 0 THEN <<0, 1>> ELSE <<num \div Gcd(num, den), den \div Gcd(num, den)>>

\* a mutant of the running average: the earlier rate is not weighted by the
\* number of earlier observations
RecordUsageUnweighted(v, success) ==
    LET count == v.usage_count + 1
    IN  [v EXCEPT !.usage_count = count,
                  !.success_rate =
                      IF count = 1
                      THEN (IF success THEN <<1, 1>> ELSE <<0, 1>>)
                      ELSE Fraction(v.success_rate[1]
                                        + (IF success THEN v.success_rate[2] ELSE 0),
                                    v.success_rate[2] * count)]

\* update_usage_stats, lines 409-419: the active version after one observation
RecordUsage(v, success) ==
    LET count == v.usage_count + 1
        current_successes_num == v.success_rate[1] * (count - 1)
        current_successes_den == v.success_rate[2]
    IN  [v EXCEPT !.usage_count = count,
                  !.success_rate =
                      IF count = 1
                      THEN (IF success THEN <<1, 1>> ELSE <<0, 1>>)
                      ELSE Fraction(current_successes_num
                                        + (IF success THEN current_successes_den ELSE 0),
                                    current_successes_den * count)]

\* observations recorded over all versions of a record (bounded by MaxUsage)
RECURSIVE TotalUsage(_)
TotalUsage(versions) ==
    IF versions = <<>> THEN 0 ELSE Head(versions).usage_count + TotalUsage(Tail(versions))

\* a mutant of the duplicate check: no name is ever reported as present
AlreadyExistsNever(name) == FALSE

\* create_element, line 277: `element_name in self._elements`
AlreadyExists(name) == name \in DOMAIN elements

\* a mutant of create_element: an auto-approved first version stays DRAFT
NewElementRecordDraft(created_by) ==
    [versions |-> <<SubmitForApproval(LocatorVersion(1, created_by, 0))>>,
     active_version |-> 0]

\* the record create_element builds, lines 281-303
NewElementRecord(created_by) ==
    LET submitted == SubmitForApproval(LocatorVersion(1, created_by, 0))
        version == IF submitted.approval_status = "AUTO_APPROVED"
                   THEN [submitted EXCEPT !.status = "ACTIVE"]
                   ELSE submitted
    IN  [versions |-> <<version>>,
         active_version |-> IF version.status = "ACTIVE" THEN 1 ELSE 0]

\* ElementRepository.get_element's answer from the authoritative map
\* (lines 251-267): "record" or "None"
MapLookup(elems, name, include_inactive) ==
    IF name \notin DOMAIN elems
    THEN "None"
    ELSE LET active == GetActiveVersion(elems[name])
         IN  IF /\ ~include_inactive
                /\ active > 0
                /\ elems[name].versions[active].status # "ACTIVE"
             THEN "None"
             ELSE "record"

TasksUnchanged == UNCHANGED <<lock, pc, loc>>

(***************************************************************************)
(* The operations, each as one atomic action.                              *)
(***************************************************************************)
CreateElement(name, created_by) ==
    /\ LockAvailable
    /\ IF AlreadyExists(name)
       THEN /\ last' = Call("create_element", name, "ValueError: already exists", 0)
            /\ UNCHANGED <<elements, cache, storage>>
       ELSE /\ elements' = (name :> NewElementRecord(created_by)) @@ elements
            /\ cache' = CachePut(cache, name, elements'[name])
            /\ storage' = SaveToStorage(elements')
            /\ last' = Call("create_element", name, "ok", 1)
    /\ UNCHANGED <<save_tasks, add_calls, observations>>
    /\ TasksUnchanged
    /\ UNCHANGED unit_vars

AddVersion(name, created_by, confidence_score) ==
    /\ LockAvailable
    /\ IF name \notin DOMAIN elements
       THEN /\ last' = Call("add_version", name, "ValueError: does not exist", 0)
            /\ UNCHANGED <<elements, cache, storage, add_calls>>
       ELSE LET record == elements[name]
                next_version == Len(record.versions) + 1
                version == SubmitForApproval(
                               LocatorVersion(next_version, created_by, confidence_score))
                act == IF version.approval_status = "AUTO_APPROVED"
                       THEN ActivateVersion(record, next_version)
                       ELSE [record |-> record, raised |-> FALSE]
            IN  /\ add_calls[name] < MaxAddCalls
                /\ add_calls' = [add_calls EXCEPT ![name] = @ + 1]
                /\ IF act.raised
                   THEN /\ elements' = [elements EXCEPT ![name] = act.record]
                        /\ last' = Call("add_version", name, "IndexError", 0)
                        /\ cache' = Aliased(cache, elements')
                        /\ UNCHANGED storage
                   ELSE /\ elements' = [elements EXCEPT ![name] =
                               [act.record EXCEPT !.versions = Append(@, version)]]
                        /\ cache' = CacheInvalidate(cache, name)
                        /\ storage' = SaveToStorage(elements')
                        /\ last' = Call("add_version", name, "ok", next_version)
    /\ UNCHANGED <<save_tasks, observations>>
    /\ TasksUnchanged
    /\ UNCHANGED unit_vars

ApproveVersion(name, version, approver) ==
    /\ LockAvailable
    /\ LET false == /\ last' = Call("approve_version", name, "False", 0)
                    /\ UNCHANGED <<elements, cache, storage>>
       IN  IF name \notin DOMAIN elements
           THEN false
           ELSE LET record == elements[name]
                    pos == PyIndex(Len(record.versions), version - 1)
                IN  IF version > Len(record.versions)
                    THEN false
                    ELSE IF pos = 0
                    THEN /\ last' = Call("approve_version", name, "IndexError", 0)
                         /\ UNCHANGED <<elements, cache, storage>>
                    ELSE IF record.versions[pos].approval_status # "PENDING"
                    THEN false
                    ELSE LET approved == [record EXCEPT
                                             !.versions[pos].approval_status = "APPROVED",
                                             !.versions[pos].approved_by = approver]
                             act == ActivateVersion(approved, version)
                         IN  IF act.raised
                             THEN /\ elements' = [elements EXCEPT ![name] = act.record]
                                  /\ last' = Call("approve_version", name, "IndexError", 0)
                                  /\ cache' = Aliased(cache, elements')
                                  /\ UNCHANGED storage
                             ELSE /\ elements' = [elements EXCEPT ![name] = act.record]
                                  /\ cache' = CacheInvalidate(cache, name)
                                  /\ storage' = SaveToStorage(elements')
                                  /\ last' = Call("approve_version", name, "True", 0)
    /\ UNCHANGED <<save_tasks, add_calls, observations>>
    /\ TasksUnchanged
    /\ UNCHANGED unit_vars

\* update_usage_stats; `bound` caps the observations recorded on one element
UpdateUsageStatsUpTo(name, success, bound) ==
    /\ LockAvailable
    /\ last' = Call("update_usage_stats", name, "None", 0)
    /\ IF name \notin DOMAIN elements
       THEN UNCHANGED <<elements, cache, save_tasks, observations>>
       ELSE LET active == GetActiveVersion(elements[name])
            IN  IF active = 0
                THEN UNCHANGED <<elements, cache, save_tasks, observations>>
                ELSE /\ TotalUsage(elements[name].versions) < bound
                     /\ elements' = [elements EXCEPT ![name].versions[active] =
                                        RecordUsage(@, success)]
                     /\ cache' = CacheInvalidate(cache, name)
                     /\ save_tasks' = save_tasks + 1
                     /\ observations' = [observations EXCEPT ![name] =
                                            Append(@, <<active, success>>)]
    /\ UNCHANGED <<storage, add_calls>>
    /\ TasksUnchanged
    /\ UNCHANGED unit_vars

UpdateUsageStats(name, success) == UpdateUsageStatsUpTo(name, success, MaxUsage)

\* a mutant of the scheduled write: the task ends without writing
RunSaveTaskLost ==
    /\ save_tasks > 0
    /\ save_tasks' = save_tasks - 1
    /\ UNCHANGED <<elements, cache, storage, last, add_calls, observations>>
    /\ TasksUnchanged
    /\ UNCHANGED unit_vars

\* the task made by asyncio.create_task(self._save_to_storage()) runs
RunSaveTask ==
    /\ save_tasks > 0
    /\ save_tasks' = save_tasks - 1
    /\ storage' = SaveToStorage(elements)
    /\ UNCHANGED <<elements, cache, last, add_calls, observations>>
    /\ TasksUnchanged
    /\ UNCHANGED unit_vars

\* what get_element returns (lines 243-267): "record" (the map's record
\* object, from the cache or from the map) or "None"
GetElementResult(elems, c, name, include_inactive, expired) ==
    IF name \in DOMAIN c /\ ~expired
    THEN "record"
    ELSE MapLookup(elems, name, include_inactive)

\* get_element; `expired` says whether the cached entry has outlived its TTL
GetElement(name, include_inactive, expired) ==
    /\ last' = Call("get_element", name,
                    GetElementResult(elements, cache, name, include_inactive, expired), 0)
    /\ IF name \in DOMAIN cache /\ ~expired
       THEN UNCHANGED cache
       ELSE /\ LockAvailable
            /\ cache' = IF MapLookup(elements, name, include_inactive) = "record"
                        THEN CachePut(CacheInvalidate(cache, name), name, elements[name])
                        ELSE CacheInvalidate(cache, name)
    /\ UNCHANGED <<elements, storage, save_tasks, add_calls, observations>>
    /\ TasksUnchanged
    /\ UNCHANGED unit_vars

Next ==
    \/ \E name \in ElementNames, created_by \in Creators : CreateElement(name, created_by)
    \/ \E name \in Names, created_by \in Creators, confidence_score \in Confidences :
           AddVersion(name, created_by, confidence_score)
    \/ \E name \in Names, version \in VersionArgs, approver \in Approvers :
           ApproveVersion(name, version, approver)
    \/ \E name \in Names, success \in BOOLEAN : UpdateUsageStats(name, success)
    \/ \E name \in Names, include_inactive \in BOOLEAN, expired \in BOOLEAN :
           GetElement(name, include_inactive, expired)
    \/ RunSaveTask

Spec == Init /\ [][Next]_vars

(***************************************************************************)
(* add_version as a task of the event loop.  The task may be suspended at  *)
(* every await (lock acquisition, submit_for_approval, _activate_version,  *)
(* _save_to_storage, leaving the `async with` block), and other tasks and  *)
(* operations run in between whenever the lock lets them.                  *)
(***************************************************************************)
\* the call is made; nothing has run yet
AV_Call(t, name, created_by, confidence_score) ==
    /\ pc[t] = "idle"
    /\ add_calls[name] < MaxAddCalls
    /\ loc' = [loc EXCEPT ![t] = [NoLocals EXCEPT !.name = name,
                                                  !.created_by = created_by,
                                                  !.confidence_score = confidence_score]]
    /\ pc' = [pc EXCEPT ![t] = "acquire"]
    /\ UNCHANGED <<elements, cache, storage, save_tasks, last, add_calls, lock>>
    /\ UNCHANGED observations
    /\ UNCHANGED unit_vars

\* line 320: async with self._lock
AV_Acquire(t) ==
    /\ pc[t] = "acquire"
    /\ LockAvailable
    /\ lock' = t
    /\ pc' = [pc EXCEPT ![t] = "check"]
    /\ UNCHANGED <<elements, cache, storage, save_tasks, last, add_calls, loc>>
    /\ UNCHANGED observations
    /\ UNCHANGED unit_vars

\* lines 321-337: existence check, next_version, the new LocatorVersion
AV_Check(t) ==
    /\ pc[t] = "check"
    /\ IF loc[t].name \notin DOMAIN elements
       THEN /\ last' = Call("add_version", loc[t].name, "ValueError: does not exist", 0)
            /\ lock' = 0
            /\ pc' = [pc EXCEPT ![t] = "idle"]
            /\ loc' = [loc EXCEPT ![t] = NoLocals]
            /\ UNCHANGED add_calls
       ELSE LET next_version == Len(elements[loc[t].name].versions) + 1
            IN  /\ loc' = [loc EXCEPT ![t].next_version = next_version,
                                      ![t].version = LocatorVersion(next_version,
                                                         loc[t].created_by,
                                                         loc[t].confidence_score)]
                /\ add_calls' = [add_calls EXCEPT ![loc[t].name] = @ + 1]
                /\ pc' = [pc EXCEPT ![t] = "submit"]
                /\ UNCHANGED <<last, lock>>
    /\ UNCHANGED <<elements, cache, storage, save_tasks>>
    /\ UNCHANGED observations
    /\ UNCHANGED unit_vars

\* line 340: await self.workflow.submit_for_approval(element_name, version)
AV_Submit(t) ==
    /\ pc[t] = "submit"
    /\ loc' = [loc EXCEPT ![t].version = SubmitForApproval(@)]
    /\ pc' = [pc EXCEPT ![t] =
                 IF SubmitForApproval(loc[t].version).approval_status = "AUTO_APPROVED"
                 THEN "activate" ELSE "append"]
    /\ UNCHANGED <<elements, cache, storage, save_tasks, last, add_calls, lock>>
    /\ UNCHANGED observations
    /\ UNCHANGED unit_vars

\* lines 343-344: await self._activate_version(element_name, next_version)
AV_Activate(t) ==
    /\ pc[t] = "activate"
    /\ LET act == ActivateVersion(elements[loc[t].name], loc[t].next_version)
       IN  /\ elements' = [elements EXCEPT ![loc[t].name] = act.record]
           /\ IF act.raised
              THEN /\ last' = Call("add_version", loc[t].name, "IndexError", 0)
                   /\ lock' = 0
                   /\ pc' = [pc EXCEPT ![t] = "idle"]
                   /\ loc' = [loc EXCEPT ![t] = NoLocals]
              ELSE /\ pc' = [pc EXCEPT ![t] = "append"]
                   /\ UNCHANGED <<last, lock, loc>>
    /\ cache' = Aliased(cache, elements')
    /\ UNCHANGED <<storage, save_tasks, add_calls>>
    /\ UNCHANGED observations
    /\ UNCHANGED unit_vars

\* lines 346-349: append the version, invalidate the cache entry
AV_Append(t) ==
    /\ pc[t] = "append"
    /\ elements' = [elements EXCEPT ![loc[t].name].versions = Append(@, loc[t].version)]
    /\ cache' = CacheInvalidate(cache, loc[t].name)
    /\ pc' = [pc EXCEPT ![t] = "save"]
    /\ UNCHANGED <<storage, save_tasks, last, add_calls, lock, loc>>
    /\ UNCHANGED observations
    /\ UNCHANGED unit_vars

\* line 350: await self._save_to_storage()
AV_Save(t) ==
    /\ pc[t] = "save"
    /\ storage' = SaveToStorage(elements)
    /\ pc' = [pc EXCEPT ![t] = "return"]
    /\ UNCHANGED <<elements, cache, save_tasks, last, add_calls, lock, loc>>
    /\ UNCHANGED observations
    /\ UNCHANGED unit_vars

\* lines 352-353: return version; the `async with` block releases the lock
AV_Return(t) ==
    /\ pc[t] = "return"
    /\ last' = Call("add_version", loc[t].name, "ok", loc[t].next_version)
    /\ lock' = 0
    /\ pc' = [pc EXCEPT ![t] = "idle"]
    /\ loc' = [loc EXCEPT ![t] = NoLocals]
    /\ UNCHANGED <<elements, cache, storage, save_tasks, add_calls>>
    /\ UNCHANGED observations
    /\ UNCHANGED unit_vars

NextConc ==
    \/ \E name \in ElementNames, created_by \in Creators : CreateElement(name, created_by)
    \/ \E name \in Names, version \in VersionArgs, approver \in Approvers :
           ApproveVersion(name, version, approver)
    \/ \E t \in Tasks, name \in Names, created_by \in Creators,
          confidence_score \in Confidences :
           AV_Call(t, name, created_by, confidence_score)
    \/ \E t \in Tasks : AV_Acquire(t)
    \/ \E t \in Tasks : AV_Check(t)
    \/ \E t \in Tasks : AV_Submit(t)
    \/ \E t \in Tasks : AV_Activate(t)
    \/ \E t \in Tasks : AV_Append(t)
    \/ \E t \in Tasks : AV_Save(t)
    \/ \E t \in Tasks : AV_Return(t)

SpecConc == Init /\ [][NextConc]_vars

(***************************************************************************)
(* Loading the persisted document.                                         *)
(***************************************************************************)
\* initialize() on the running instance: the map entries named in the
\* document are rebound to new records; records held by the cache are the
\* old objects
Initialize ==
    /\ elements' = LoadFromStorage(elements, storage)
    /\ cache' = [n \in DOMAIN cache |->
                    IF storage.exists /\ n \in DOMAIN storage.data
                    THEN [cache[n] EXCEPT !.alias = FALSE]
                    ELSE cache[n]]
    /\ last' = Call("initialize", "", "None", 0)
    /\ UNCHANGED <<storage, save_tasks, add_calls, observations>>
    /\ TasksUnchanged
    /\ UNCHANGED unit_vars

\* ElementRepository(storage_path) followed by initialize(): a fresh instance
\* on the same file, with an empty cache and no scheduled task
FreshInstance ==
    /\ elements' = LoadFromStorage(<<>>, storage)
    /\ cache' = <<>>
    /\ save_tasks' = 0
    /\ last' = Call("fresh instance", "", "None", 0)
    /\ observations' = [n \in Names |-> <<>>]
    /\ UNCHANGED <<storage, add_calls>>
    /\ TasksUnchanged
    /\ UNCHANGED unit_vars

NextReload ==
    \/ \E name \in ElementNames, created_by \in Creators : CreateElement(name, created_by)
    \/ \E name \in Names, created_by \in Creators, confidence_score \in Confidences :
           AddVersion(name, created_by, confidence_score)
    \/ \E name \in Names, version \in VersionArgs, approver \in Approvers :
           ApproveVersion(name, version, approver)
    \/ \E name \in Names, include_inactive \in BOOLEAN, expired \in BOOLEAN :
           GetElement(name, include_inactive, expired)
    \/ Initialize
    \/ FreshInstance

SpecReload == Init /\ [][NextReload]_vars

(***************************************************************************)
(* Usage statistics.  The element starts as create_element, add_version    *)
(* and approve_version can leave it, and is then only observed.            *)
(***************************************************************************)
\* create_element by a trusted creator: version 1 ACTIVE
CreatedActive == NewElementRecord("system")

\* create_element by an untrusted creator: version 1 DRAFT, no active version
CreatedPending == NewElementRecord("developer")

\* ... then a pending version 2 is added and approved: version 2 ACTIVE
SecondApproved ==
    LET added == [CreatedPending EXCEPT !.versions =
                     Append(@, SubmitForApproval(LocatorVersion(2, "developer", 6)))]
        approved == [added EXCEPT !.versions[2].approval_status = "APPROVED",
                                  !.versions[2].approved_by = "admin"]
    IN  ActivateVersion(approved, 2).record

UsageStarts == {CreatedActive, CreatedPending, SecondApproved}

InitUsage ==
    /\ \E record \in UsageStarts :
           /\ elements = [n \in ElementNames |-> record]
           /\ add_calls = [n \in Names |->
                              IF n \in ElementNames THEN Len(record.versions) - 1 ELSE 0]
           \* create_element leaves a cache entry, approve_version removes it
           /\ cache = [n \in {m \in ElementNames : record # SecondApproved} |->
                          [record |-> record, alias |-> TRUE]]
    /\ storage = SaveToStorage(elements)
    /\ save_tasks = 0
    /\ last = NoCall
    /\ lock = 0
    /\ pc = [t \in Tasks |-> "idle"]
    /\ loc = [t \in Tasks |-> NoLocals]
    /\ observations = [n \in Names |-> <<>>]
    /\ UnitsInit

NextUsage ==
    \/ \E name \in Names, success \in BOOLEAN :
           UpdateUsageStatsUpTo(name, success, MaxObservations)
    \/ \E name \in Names, include_inactive \in BOOLEAN, expired \in BOOLEAN :
           GetElement(name, include_inactive, expired)
    \/ RunSaveTask

SpecUsage == InitUsage /\ [][NextUsage]_vars

\* the event loop runs the tasks made by asyncio.create_task
SpecUsageFair == SpecUsage /\ WF_vars(RunSaveTask)

(***************************************************************************)
(* search_elements (lines 426-450).  Each record of the map, in iteration  *)
(* order, is given by the outcome of the substring tests for the query:    *)
(* does the name match, is there an active version, does its css or xpath  *)
(* selector match, does one of its alternatives match.                     *)
(***************************************************************************)
\* records in the map and largest limit examined
MaxRecords == 3
MaxLimit == 2

SearchRecords ==
    [name : BOOLEAN, active : BOOLEAN, selector : BOOLEAN, alternative : BOOLEAN]

RECURSIVE SearchMaps(_)
SearchMaps(n) ==
    IF n = 0
    THEN {<<>>}
    ELSE SearchMaps(n - 1)
         \cup {Append(m, r) : m \in {x \in SearchMaps(n - 1) : Len(x) = n - 1},
                               r \in SearchRecords}

\* the loop of lines 430-448 from position i on, with the results so far
\* (positions of the records appended); `continue` goes to the next record
\* without reaching the test of line 447
RECURSIVE SearchLoop(_, _, _, _)
SearchLoop(records, i, results, limit) ==
    IF i > Len(records)
    THEN results
    ELSE LET record == records[i]
         IN  IF record.name
             THEN SearchLoop(records, i + 1, Append(results, i), limit)
             ELSE IF record.active /\ record.selector
             THEN SearchLoop(records, i + 1, Append(results, i), limit)
             ELSE LET found == IF record.active /\ record.alternative
                               THEN Append(results, i)
                               ELSE results
                  IN  IF Len(found) >= limit
                      THEN found
                      ELSE SearchLoop(records, i + 1, found, limit)

\* a call search_elements(query, limit) on a map of up to MaxRecords records
InitSearch ==
    /\ RepositoryInit
    /\ CacheConstructed(MaxSize)
    /\ RegistryInit
    /\ \E records \in SearchMaps(MaxRecords), limit \in 1..MaxLimit :
           search = [records |-> records, limit |-> limit, results |-> <<>>,
                     returned |-> FALSE]

SearchElements ==
    /\ ~search.returned
    /\ search' = [search EXCEPT
                     !.results = SearchLoop(search.records, 1, <<>>, search.limit),
                     !.returned = TRUE]
    /\ UNCHANGED <<repository_vars, cache_vars, registry_vars>>

NextSearch == SearchElements

SpecSearch == InitSearch /\ [][NextSearch]_vars

(***************************************************************************)
(* ElementRepositoryCache on its own (lines 97-155), with the clock that   *)
(* time.time() reads.  A cache is the pair of its two dicts.               *)
(***************************************************************************)
CacheKeys == {"k1", "k2", "k3"}

AccessKeys(access) == {access[i][1] : i \in 1..Len(access)}

\* self._access_times[name], for a name in the dict
AccessTime(access, name) ==
    access[CHOOSE i \in 1..Len(access) : access[i][1] = name][2]

\* self._access_times[name] = time: a known key keeps its place in the
\* dict, a new key goes to the end
SetAccessTime(access, name, time) ==
    IF name \in AccessKeys(access)
    THEN [i \in 1..Len(access) |->
             IF access[i][1] = name THEN <<name, time>> ELSE access[i]]
    ELSE Append(access, <<name, time>>)

\* a mutant of _evict: the entry is removed, its access time is not
Cache_evict_entry_only(c, name) ==
    [entries |-> [n \in DOMAIN c.entries \ {name} |-> c.entries[n]],
     access |-> c.access]

\* _evict, lines 144-147: pop the name from both dicts
Cache_evict(c, name) ==
    [entries |-> [n \in DOMAIN c.entries \ {name} |-> c.entries[n]],
     access |-> SelectSeq(c.access, LAMBDA e : e[1] # name)]

\* a mutant of _evict_lru: the most recently used name is evicted
Cache_evict_mru(c) ==
    IF c.access = <<>>
    THEN c
    ELSE LET i == CHOOSE i \in 1..Len(c.access) :
                      /\ \A j \in 1..Len(c.access) : c.access[j][2] <= c.access[i][2]
                      /\ \A j \in 1..(i - 1) : c.access[j][2] < c.access[i][2]
         IN  Cache_evict(c, c.access[i][1])

\* _evict_lru, lines 149-155: min() takes the first name, in dict order,
\* among those with the smallest access time
Cache_evict_lru(c) ==
    IF c.access = <<>>
    THEN c
    ELSE LET i == CHOOSE i \in 1..Len(c.access) :
                      /\ \A j \in 1..Len(c.access) : c.access[j][2] >= c.access[i][2]
                      /\ \A j \in 1..(i - 1) : c.access[j][2] > c.access[i][2]
         IN  Cache_evict(c, c.access[i][1])

\* a mutant of get: a hit also renews the entry's cache_time
Cache_get_sliding(c, name, current_time) ==
    IF name \in DOMAIN c.entries
    THEN IF current_time - c.entries[name] > ttl_seconds
         THEN [cache |-> Cache_evict(c, name), result |-> "None"]
         ELSE [cache |-> [entries |-> [c.entries EXCEPT ![name] = current_time],
                          access |-> SetAccessTime(c.access, name, current_time)],
               result |-> "record"]
    ELSE [cache |-> c, result |-> "None"]

\* get, lines 106-122: the cache after the call and what the call returns
Cache_get(c, name, current_time) ==
    IF name \in DOMAIN c.entries
    THEN IF current_time - c.entries[name] > ttl_seconds
         THEN [cache |-> Cache_evict(c, name), result |-> "None"]
         ELSE [cache |-> [entries |-> c.entries,
                          access |-> SetAccessTime(c.access, name, current_time)],
               result |-> "record"]
    ELSE [cache |-> c, result |-> "None"]

\* put, lines 124-133
Cache_put(c, name, current_time, size) ==
    LET room == IF Cardinality(DOMAIN c.entries) >= size /\ name \notin DOMAIN c.entries
                THEN Cache_evict_lru(c)
                ELSE c
    IN  [entries |-> (name :> current_time) @@ room.entries,
         access |-> SetAccessTime(room.access, name, current_time)]

TheCache == [entries |-> cache_entries, access |-> access_times]

\* the cache becomes c; the call is recorded with the names it removed
CacheBecomes(c, op, name, result) ==
    /\ cache_entries' = c.entries
    /\ access_times' = c.access
    /\ cache_call' = [op |-> op, name |-> name, result |-> result,
                      evicted |-> DOMAIN cache_entries \ DOMAIN c.entries]
    /\ UNCHANGED <<max_size, clock>>
    /\ UNCHANGED <<repository_vars, search_vars, registry_vars>>

Get(name) ==
    CacheBecomes(Cache_get(TheCache, name, clock).cache, "get", name,
                 Cache_get(TheCache, name, clock).result)

Put(name) ==
    CacheBecomes(Cache_put(TheCache, name, clock, max_size), "put", name, "None")

\* invalidate, lines 135-137
Invalidate(name) ==
    CacheBecomes(Cache_evict(TheCache, name), "invalidate", name, "None")

\* clear, lines 139-142
Clear ==
    CacheBecomes([entries |-> <<>>, access |-> <<>>], "clear", "", "None")

\* time passes
Tick ==
    /\ clock < MaxTime
    /\ clock' = clock + 1
    /\ UNCHANGED <<cache_entries, access_times, max_size, cache_call>>
    /\ UNCHANGED <<repository_vars, search_vars, registry_vars>>

\* a cache built with any max_size from 1 to MaxSize
InitCache ==
    /\ RepositoryInit
    /\ SearchInit
    /\ RegistryInit
    /\ \E size \in 1..MaxSize : CacheConstructed(size)

NextCache ==
    \/ \E name \in CacheKeys : Get(name)
    \/ \E name \in CacheKeys : Put(name)
    \/ \E name \in CacheKeys : Invalidate(name)
    \/ Clear
    \/ Tick

SpecCache == InitCache /\ [][NextCache]_vars

(***************************************************************************)
(* ToolRegistry (tool_registry.py): registration and call_tool.  A call is *)
(* given by the tool name, by what request-schema validation says about    *)
(* its keyword arguments, and by how the tool body behaves when it is run. *)
(***************************************************************************)
\* the function passed to register_tool: a coroutine function, a plain
\* function, or an object that is not callable
ToolFunctions == {"async", "sync", "not callable"}
\* the keyword arguments of a call: none, accepted or refused by
\* validate_tool_request
Kwargs == {"empty", "valid", "invalid"}
\* what the tool body does within a call
Bodies == {"returns", "times out", "raises ValueError", "raises Exception"}

RegistryCall(op, name, outcome, validated, body_started) ==
    [op |-> op, name |-> name, outcome |-> outcome,
     validated |-> validated, body_started |-> body_started]

RegistryUnchanged == UNCHANGED <<tools, metadata, categories>>

InSeq(seq, x) == \E i \in 1..Len(seq) : seq[i] = x

\* list.remove(x): the first occurrence of x is removed
RemoveFirst(seq, x) ==
    LET i == CHOOSE i \in 1..Len(seq) :
                 seq[i] = x /\ \A j \in 1..(i - 1) : seq[j] # x
    IN  SubSeq(seq, 1, i - 1) \o SubSeq(seq, i + 1, Len(seq))

\* register_tool, lines 82-103
RegisterTool(name, func, category) ==
    /\ IF func = "not callable"
       THEN /\ registry_call' = RegistryCall("register_tool", name,
                                             "ValueError: must be callable", FALSE, FALSE)
            /\ RegistryUnchanged
       ELSE /\ tools' = (name :> func) @@ tools
            /\ metadata' = (name :> [category |-> category]) @@ metadata
            /\ categories' = IF InSeq(categories[category], name)
                             THEN categories
                             ELSE [categories EXCEPT ![category] = Append(@, name)]
            /\ registry_call' = RegistryCall("register_tool", name, "None", FALSE, FALSE)
    /\ UNCHANGED in_flight
    /\ UNCHANGED <<repository_vars, search_vars, cache_vars>>

\* unregister_tool, lines 105-117
UnregisterTool(name) ==
    /\ IF name \notin DOMAIN tools
       THEN /\ registry_call' = RegistryCall("unregister_tool", name,
                                             "ValueError: not registered", FALSE, FALSE)
            /\ RegistryUnchanged
       ELSE /\ tools' = [n \in DOMAIN tools \ {name} |-> tools[n]]
            /\ metadata' = [n \in DOMAIN metadata \ {name} |-> metadata[n]]
            /\ categories' = [categories EXCEPT ![metadata[name].category] =
                                 RemoveFirst(@, name)]
            /\ registry_call' = RegistryCall("unregister_tool", name, "None", FALSE, FALSE)
    /\ UNCHANGED in_flight
    /\ UNCHANGED <<repository_vars, search_vars, cache_vars>>

\* a mutant of the lookup: every name passes for registered
ToolNotFoundNever(name) == FALSE

\* call_tool, line 185: `name not in self._tools`
ToolNotFound(name) == name \notin DOMAIN tools

\* the tools for which the schemas directory holds a schema document
\* (SchemaValidator._load_schemas); a tool registered by a caller has none
SchemaDocuments == {"run_action"}

\* the tools whose function has parameters without a default
\* (_run_action_tool: action_type, element_name)
RequiredParameters == {"run_action"}

\* validate_tool_request(name, kwargs): "None", or the code of the first
\* violation.  "valid" and "invalid" are mappings with entries that the
\* request schema of the tool accepts and refuses; the empty mapping lacks
\* every required field.
ValidateToolRequest(name, kwargs) ==
    IF name \notin SchemaDocuments
    THEN "SCHEMA_VALIDATION_FAILED"
    ELSE CASE kwargs = "valid" -> "None"
           [] kwargs = "invalid" -> "INVALID_ENUM_VALUE"
           [] OTHER -> "MISSING_REQUIRED_FIELD"

\* call_tool, lines 206-217: whether the call expression itself raises
\* TypeError, so that no statement of the tool body is run:
\* run_in_executor takes no keyword arguments, and a function called with
\* the empty mapping lacks its required parameters
CallRaisesTypeError(name, kwargs) ==
    \/ tools[name] = "sync" /\ kwargs # "empty"
    \/ kwargs = "empty" /\ name \in RequiredParameters

\* call_tool, lines 208-217 and 229-236: wait_for cancels what it awaits on
\* timeout.  A coroutine is cancelled at its await; the future of
\* run_in_executor is cancelled while its function goes on in the thread.
BodyOutlivesTimeout(name, body) ==
    tools[name] = "sync" /\ body = "times out"

\* call_tool, lines 183-247
CallTool(name, kwargs, body) ==
    /\ IF ToolNotFound(name)
       THEN /\ registry_call' = RegistryCall("call_tool", name,
                                    "ValueError: not registered", FALSE, FALSE)
            /\ UNCHANGED in_flight
       ELSE IF name \notin DOMAIN tools
       THEN \* lines 194-195: the lookup self._tools[name] raises
            /\ registry_call' = RegistryCall("call_tool", name, "KeyError", FALSE, FALSE)
            /\ UNCHANGED in_flight
       ELSE IF kwargs # "empty" /\ ValidateToolRequest(name, kwargs) # "None"
       THEN /\ registry_call' = RegistryCall("call_tool", name,
                                    "ValueError: Input validation failed", TRUE, FALSE)
            /\ UNCHANGED in_flight
       ELSE IF CallRaisesTypeError(name, kwargs)
       THEN /\ registry_call' = RegistryCall("call_tool", name,
                                    "Exception: Unexpected error", kwargs # "empty", FALSE)
            /\ UNCHANGED in_flight
       ELSE /\ registry_call' =
                   RegistryCall("call_tool", name,
                                CASE body = "returns" -> "result"
                                  [] body = "times out" -> "TimeoutError"
                                  [] body = "raises ValueError" -> "ValueError"
                                  [] OTHER -> "Exception: Unexpected error",
                                kwargs # "empty", TRUE)
            /\ IF BodyOutlivesTimeout(name, body)
               THEN /\ in_flight[name] < MaxInFlight
                    /\ in_flight' = [in_flight EXCEPT ![name] = @ + 1]
               ELSE UNCHANGED in_flight
    /\ RegistryUnchanged
    /\ UNCHANGED <<repository_vars, search_vars, cache_vars>>

\* the function of a sync tool whose call_tool has reported the timeout
\* runs its remaining statements on the worker thread and returns
WorkerThreadFinishes(name) ==
    /\ in_flight[name] > 0
    /\ in_flight' = [in_flight EXCEPT ![name] = @ - 1]
    /\ registry_call' = RegistryCall("tool body", name, "late write", FALSE, TRUE)
    /\ RegistryUnchanged
    /\ UNCHANGED <<repository_vars, search_vars, cache_vars>>

InitRegistry ==
    /\ RepositoryInit
    /\ SearchInit
    /\ CacheConstructed(MaxSize)
    /\ RegistryInit

NextRegistry ==
    \/ \E name \in ToolNames, func \in ToolFunctions, category \in ToolCategory :
           RegisterTool(name, func, category)
    \/ \E name \in ToolNames : UnregisterTool(name)
    \/ \E name \in ToolNames, kwargs \in Kwargs, body \in Bodies :
           CallTool(name, kwargs, body)
    \/ \E name \in ToolNames : WorkerThreadFinishes(name)

SpecRegistry == InitRegistry /\ [][NextRegistry]_vars

(***************************************************************************)
(* get_element as a task of the event loop.  The cache is read before the  *)
(* lock is taken (lines 246-248), so that read may fall between any two    *)
(* steps of a writer; the map is read and the cache filled under the lock  *)
(* (lines 250-267, no await inside).                                       *)
(***************************************************************************)
\* lines 246-248: cached = self.cache.get(name); a hit returns it at once,
\* an entry past its TTL is evicted by the cache
GE_Call(t, name, include_inactive, expired) ==
    /\ pc[t] = "idle"
    /\ IF name \in DOMAIN cache /\ ~expired
       THEN /\ last' = Call("get_element", name, "cached record", 0)
            /\ UNCHANGED <<cache, pc, loc>>
       ELSE /\ cache' = CacheInvalidate(cache, name)
            /\ loc' = [loc EXCEPT ![t] = [NoLocals EXCEPT
                                             !.name = name,
                                             !.include_inactive = include_inactive]]
            /\ pc' = [pc EXCEPT ![t] = "lookup"]
            /\ UNCHANGED last
    /\ UNCHANGED <<elements, storage, save_tasks, add_calls, lock>>
    /\ UNCHANGED observations
    /\ UNCHANGED unit_vars

\* lines 250-267: under the lock, answer from the map and fill the cache
GE_Lookup(t) ==
    /\ pc[t] = "lookup"
    /\ LockAvailable
    /\ last' = Call("get_element", loc[t].name,
                    MapLookup(elements, loc[t].name, loc[t].include_inactive), 0)
    /\ cache' = IF MapLookup(elements, loc[t].name, loc[t].include_inactive) = "record"
                THEN CachePut(cache, loc[t].name, elements[loc[t].name])
                ELSE cache
    /\ pc' = [pc EXCEPT ![t] = "idle"]
    /\ loc' = [loc EXCEPT ![t] = NoLocals]
    /\ UNCHANGED <<elements, storage, save_tasks, add_calls, lock>>
    /\ UNCHANGED observations
    /\ UNCHANGED unit_vars

\* the task that runs add_version and the task that runs get_element
Writers == {1}
Readers == {2}

NextGet ==
    \/ \E name \in ElementNames, created_by \in Creators : CreateElement(name, created_by)
    \/ \E name \in Names, version \in VersionArgs, approver \in Approvers :
           ApproveVersion(name, version, approver)
    \/ \E name \in Names, success \in BOOLEAN : UpdateUsageStats(name, success)
    \/ \E t \in Writers, name \in ElementNames, created_by \in Creators,
          confidence_score \in {c \in Confidences : c < confidence_threshold} :
           AV_Call(t, name, created_by, confidence_score)
    \/ \E t \in Writers : AV_Acquire(t)
    \/ \E t \in Writers : AV_Check(t)
    \/ \E t \in Writers : AV_Submit(t)
    \/ \E t \in Writers : AV_Activate(t)
    \/ \E t \in Writers : AV_Append(t)
    \/ \E t \in Writers : AV_Save(t)
    \/ \E t \in Writers : AV_Return(t)
    \/ \E t \in Readers, name \in Names, include_inactive \in BOOLEAN,
          expired \in BOOLEAN :
           GE_Call(t, name, include_inactive, expired)
    \/ \E t \in Readers : GE_Lookup(t)

SpecGet == Init /\ [][NextGet]_vars

(***************************************************************************)
(* add_version called by a tool under the timeout of call_tool.  When the  *)
(* timeout expires, wait_for cancels the tool's task: CancelledError is     *)
(* raised at the await where the task is suspended and unwinds through      *)
(* add_version (`except Exception` does not catch it).                      *)
(***************************************************************************)
\* a mutant of the unwinding: the lock stays with the cancelled task
LockAfterUnwindKept(t) == lock

\* element_repository.py line 320: leaving `async with self._lock` by an
\* exception releases the lock if the task holds it; a task cancelled while
\* it waits in acquire() does not hold it
LockAfterUnwind(t) == IF lock = t THEN 0 ELSE lock

\* the awaits of add_version inside the `async with` block
CriticalSection == {"check", "submit", "activate", "append", "save", "return"}

\* the task is cancelled where it is suspended
AV_Cancel(t) ==
    /\ pc[t] \in {"acquire"} \cup CriticalSection
    /\ last' = Call("add_version", loc[t].name,
                    IF pc[t] = "acquire"
                    THEN "CancelledError: waiting for the lock"
                    ELSE "CancelledError: in the critical section", 0)
    /\ lock' = LockAfterUnwind(t)
    /\ pc' = [pc EXCEPT ![t] = "idle"]
    /\ loc' = [loc EXCEPT ![t] = NoLocals]
    /\ UNCHANGED <<elements, cache, storage, save_tasks, add_calls>>
    /\ UNCHANGED observations
    /\ UNCHANGED unit_vars

NextCancel ==
    \/ \E name \in ElementNames, created_by \in Creators : CreateElement(name, created_by)
    \/ \E t \in Tasks, name \in ElementNames, created_by \in {"system", "developer"} :
           AV_Call(t, name, created_by, 6)
    \/ \E t \in Tasks : AV_Acquire(t)
    \/ \E t \in Tasks : AV_Check(t)
    \/ \E t \in Tasks : AV_Submit(t)
    \/ \E t \in Tasks : AV_Activate(t)
    \/ \E t \in Tasks : AV_Append(t)
    \/ \E t \in Tasks : AV_Save(t)
    \/ \E t \in Tasks : AV_Return(t)
    \/ \E t \in Tasks : AV_Cancel(t)

\* The event loop runs every task that is ready, and asyncio.Lock wakes its
\* waiters in the order of their arrival: a waiting task gets the lock if
\* the lock is free again and again.  Calls and cancellations need not
\* happen.
FairCancel ==
    \A t \in Tasks :
        /\ SF_vars(AV_Acquire(t))
        /\ WF_vars(AV_Check(t))
        /\ WF_vars(AV_Submit(t))
        /\ WF_vars(AV_Activate(t))
        /\ WF_vars(AV_Append(t))
        /\ WF_vars(AV_Save(t))
        /\ WF_vars(AV_Return(t))

SpecCancel == Init /\ [][NextCancel]_vars /\ FairCancel

(***************************************************************************)
(* Properties.                                                             *)
(***************************************************************************)
Versions(name) == elements[name].versions

\* the approval policy as the documentation states it
PolicyAutoApproves(created_by, confidence_score) ==
    created_by \in {"system", "admin"} \/ confidence_score >= 9

\* C1: every element has at most one version whose status is ACTIVE.
C1_AtMostOneActive ==
    \A name \in DOMAIN elements :
        Cardinality({i \in 1..Len(Versions(name)) :
                        Versions(name)[i].status = "ACTIVE"}) <= 1

\* C2: active_version is 0 or an index into versions, and a version whose
\* status is ACTIVE is the one at index active_version.
C2_ActiveVersionIsTheActiveOne ==
    \A name \in DOMAIN elements :
        /\ elements[name].active_version \in 0..Len(Versions(name))
        /\ \A i \in 1..Len(Versions(name)) :
               Versions(name)[i].status = "ACTIVE" => i = elements[name].active_version

\* C3: an auto-approved add_version on an existing element returns the new
\* version with status ACTIVE, makes it the active version and leaves the
\* previously active version DEPRECATED.
C3_AutoApprovedAddActivates ==
    [][\A name \in Names, created_by \in Creators, confidence_score \in Confidences :
          ( /\ last'.op = "add_version" /\ last'.name = name
            /\ name \in DOMAIN elements
            /\ PolicyAutoApproves(created_by, confidence_score)
            /\ AddVersion(name, created_by, confidence_score) )
          => /\ last'.outcome = "ok"
             /\ last'.ret = Len(Versions(name)) + 1
             /\ Len(elements'[name].versions) = Len(Versions(name)) + 1
             /\ elements'[name].versions[last'.ret].status = "ACTIVE"
             /\ elements'[name].active_version = last'.ret
             /\ GetActiveVersion(elements[name]) > 0 =>
                    elements'[name].versions[GetActiveVersion(elements[name])].status
                        = "DEPRECATED"
      ]_vars

\* C4: after N add_version calls on an element it holds N+1 versions,
\* numbered 1..N+1 in order.
C4_CallsAndVersions ==
    \A name \in DOMAIN elements :
        /\ Len(Versions(name)) = add_calls[name] + 1
        /\ \A i \in 1..Len(Versions(name)) : Versions(name)[i].version = i

\* C5: with concurrent add_version tasks, a task computes the number and
\* appends the version only while it holds the lock, and the version stored
\* at position i always carries the number i (so no number occurs twice).
C5_NumbersUnderLock ==
    /\ \A t \in Tasks :
           pc[t] \in {"check", "submit", "activate", "append", "save", "return"}
               => lock = t
    /\ \A name \in DOMAIN elements :
           \A i \in 1..Len(Versions(name)) : Versions(name)[i].version = i

\* C5 witness: one task has appended its version and still holds the lock
\* while another add_version on the same element waits for the lock.
C5_Witness ==
    \E t \in Tasks, u \in Tasks :
        /\ t # u
        /\ pc[t] \in {"save", "return"}
        /\ pc[u] = "acquire"
        /\ loc[u].name = loc[t].name
        /\ Len(Versions(loc[t].name)) >= 2

C8_ApprovePendingActivates ==
    [][\A name \in Names, version \in VersionArgs, approver \in Approvers :
          ( /\ last'.op = "approve_version" /\ last'.name = name
            /\ name \in DOMAIN elements
            /\ version \in 1..Len(Versions(name))
            /\ Versions(name)[version].approval_status = "PENDING"
            /\ ApproveVersion(name, version, approver) )
          => LET previous == GetActiveVersion(elements[name])
             IN  /\ last'.outcome = "True"
                 /\ elements'[name].versions[version].approval_status = "APPROVED"
                 /\ elements'[name].versions[version].approved_by = approver
                 /\ elements'[name].versions[version].status = "ACTIVE"
                 /\ elements'[name].active_version = version
                 /\ previous > 0 =>
                        /\ previous # version
                        /\ elements'[name].versions[previous].status = "DEPRECATED"
                 /\ \A expired \in BOOLEAN :
                        GetElementResult(elements', cache', name, FALSE, expired)
                            = "record"
      ]_vars

\* C8 witness: an approval has just succeeded and demoted an earlier version.
C8_Witness ==
    /\ last.op = "approve_version"
    /\ last.outcome = "True"
    /\ elements[last.name].active_version >= 1
    /\ \E i \in 1..Len(Versions(last.name)) : Versions(last.name)[i].status = "DEPRECATED"

\* C9: approve_version returns false and changes nothing when the element is
\* unknown, the version number is outside 1..len(versions), or the addressed
\* version is not PENDING.
C9_RejectedApprovalChangesNothing ==
    [][\A name \in Names, version \in VersionArgs, approver \in Approvers :
          ( /\ last'.op = "approve_version" /\ last'.name = name
            /\ \/ name \notin DOMAIN elements
               \/ version \notin 1..Len(Versions(name))
               \/ Versions(name)[version].approval_status # "PENDING"
            /\ ApproveVersion(name, version, approver) )
          => /\ last'.outcome = "False"
             /\ UNCHANGED <<elements, cache, storage>>
      ]_vars

\* C10: create_element on an existing name raises "already exists" and
\* add_version on an unknown name raises "does not exist"; neither changes
\* the map, the cache or the persisted document.
C10_FailedPreconditionChangesNothing ==
    [][/\ \A name \in ElementNames, created_by \in Creators :
              ( /\ last'.op = "create_element" /\ last'.name = name
                /\ name \in DOMAIN elements
                /\ CreateElement(name, created_by) )
              => /\ last'.outcome = "ValueError: already exists"
                 /\ UNCHANGED <<elements, cache, storage>>
       /\ \A name \in Names, created_by \in Creators, confidence_score \in Confidences :
              ( /\ last'.op = "add_version" /\ last'.name = name
                /\ name \notin DOMAIN elements
                /\ AddVersion(name, created_by, confidence_score) )
              => /\ last'.outcome = "ValueError: does not exist"
                 /\ UNCHANGED <<elements, cache, storage>>
      ]_vars

\* C10 witness: create_element was just refused for an element that already
\* holds several versions.
C10_Witness ==
    /\ last.op = "create_element"
    /\ last.outcome = "ValueError: already exists"
    /\ last.name \in DOMAIN elements
    /\ Len(Versions(last.name)) >= 2

\* the record has no confirmed-active version: active_version is 0 (or
\* refers to no version), or the version it refers to is not ACTIVE
NoConfirmedActive(record) ==
    \/ GetActiveVersion(record) = 0
    \/ record.versions[GetActiveVersion(record)].status # "ACTIVE"

\* C11: get_element with include_inactive = false returns None for every
\* element that has no confirmed-active version, whether the answer comes
\* from the cache or from the map.
C11_InactiveHiddenFromGet ==
    [][\A name \in Names, expired \in BOOLEAN :
          ( /\ last'.op = "get_element" /\ last'.name = name
            /\ name \in DOMAIN elements
            /\ NoConfirmedActive(elements[name])
            /\ GetElement(name, FALSE, expired) )
          => last'.outcome = "None"
      ]_vars

\* C12: whenever get_element returns a record from an unexpired cache entry,
\* under any interleaving with create_element, add_version, approve_version
\* and update_usage_stats, the record it returns has the version list and
\* the active_version (hence the active version and its selector) that the
\* authoritative map holds at that moment.
C12_CacheNeverStale ==
    [][\A t \in Readers, name \in Names, include_inactive \in BOOLEAN :
          ( /\ last'.op = "get_element" /\ last'.name = name
            /\ name \in DOMAIN cache
            /\ GE_Call(t, name, include_inactive, FALSE) )
          => /\ last'.outcome = "cached record"
             /\ name \in DOMAIN elements
             /\ cache[name].record.versions = elements[name].versions
             /\ cache[name].record.active_version = elements[name].active_version
      ]_vars

\* C12 witness: get_element has just answered from the cache for an element
\* that a writer changed after creating it (a version of it is DEPRECATED).
C12_Witness ==
    /\ last.op = "get_element"
    /\ last.outcome = "cached record"
    /\ last.name \in DOMAIN cache
    /\ \E i \in 1..Len(Versions(last.name)) : Versions(last.name)[i].status = "DEPRECATED"

\* the observations made on an element while the version at `position` was
\* its active version
ObservationsOf(name, position) ==
    SelectSeq(observations[name], LAMBDA o : o[1] = position)

Successes(obs) == Cardinality({j \in 1..Len(obs) : obs[j][2]})

\* C13: after k successful and m failed update_usage_stats calls (n = k + m,
\* in any order) made while a version was the active one, that version has
\* usage_count = n and success_rate = k/n; a version that was not the active
\* one during any call keeps its counters.
C13_UsageCountsAndRate ==
    \A name \in DOMAIN elements :
        \A i \in 1..Len(Versions(name)) :
            LET obs == ObservationsOf(name, i)
                v == Versions(name)[i]
            IN  /\ v.usage_count = Len(obs)
                /\ v.success_rate[1] * Len(obs) = Successes(obs) * v.success_rate[2]
                /\ Len(obs) = 0 => v.success_rate = LocatorVersion(0, "", 0).success_rate

\* C13 witness: version 2 of two is the active one and has been observed
\* three times or more, a failure first and a success last.
C13_Witness ==
    \E name \in DOMAIN elements :
        LET obs == ObservationsOf(name, 2)
        IN  /\ Len(Versions(name)) = 2
            /\ Len(obs) >= 3
            /\ ~obs[1][2]
            /\ obs[Len(obs)][2]
            /\ Versions(name)[1].usage_count = 0

\* C14: persisting the repository and loading the file into a fresh
\* instance reproduces the map exactly: every element with its version
\* list, its active_version and every field of every version, the two
\* statuses as the same enumeration members.
C14_SaveLoadRoundTrip ==
    [][( /\ last'.op = "fresh instance"
         /\ storage = SaveToStorage(elements)
         /\ FreshInstance )
       => /\ DOMAIN elements' = DOMAIN elements
          /\ \A name \in DOMAIN elements :
                 /\ elements'[name].active_version = elements[name].active_version
                 /\ elements'[name].versions = elements[name].versions
      ]_vars

\* what get_element answers for every name and either value of
\* include_inactive, cache entries taken as unexpired
GetElementAnswers(elems, c) ==
    [name \in Names, include_inactive \in BOOLEAN |->
        IF GetElementResult(elems, c, name, include_inactive, FALSE) = "None"
        THEN "None"
        ELSE IF name \in DOMAIN c THEN c[name].record ELSE elems[name]]

\* C15: a further initialize() leaves the authoritative map, and what
\* get_element returns for every name, as they were before the call.
C15_InitializeIdempotent ==
    [][( /\ last'.op = "initialize"
         /\ Initialize )
       => /\ elements' = elements
          /\ GetElementAnswers(elements', cache') = GetElementAnswers(elements, cache)
      ]_vars

\* C16: search_elements never returns more than `limit` records, however
\* the records match (by name, by active selector, by an alternative).
C16_SearchRespectsLimit ==
    search.returned => Len(search.results) <= search.limit

\* C17: after any sequence of put, get, invalidate and clear the cache never
\* holds more than max_size entries, and the entry map and the last-access
\* map have the same keys.
C17_CacheSizeAndKeys ==
    /\ Cardinality(DOMAIN cache_entries) <= max_size
    /\ AccessKeys(access_times) = DOMAIN cache_entries
    /\ Len(access_times) = Cardinality(DOMAIN cache_entries)

\* C17 witness: a cache of the largest size is full, has just served a hit,
\* and one of the keys is not in it.
C17_Witness ==
    /\ max_size = MaxSize
    /\ Cardinality(DOMAIN cache_entries) = max_size
    /\ cache_call.op = "get"
    /\ cache_call.result = "record"
    /\ \E name \in CacheKeys : name \notin DOMAIN cache_entries

\* C18: a put of a new key into a full cache evicts exactly one entry, one
\* whose last-access time is minimal among all entries, and then holds the
\* new key; any other put evicts nothing.
C18_PutEvictsLeastRecentlyUsed ==
    [][\A name \in CacheKeys :
          ( /\ cache_call'.op = "put" /\ cache_call'.name = name
            /\ Put(name) )
          => /\ name \in DOMAIN cache_entries'
             /\ IF /\ name \notin DOMAIN cache_entries
                   /\ Cardinality(DOMAIN cache_entries) >= max_size
                THEN \E victim \in DOMAIN cache_entries :
                        /\ \A other \in DOMAIN cache_entries :
                               AccessTime(access_times, victim)
                                   <= AccessTime(access_times, other)
                        /\ DOMAIN cache_entries' =
                               (DOMAIN cache_entries \ {victim}) \cup {name}
                ELSE DOMAIN cache_entries' = DOMAIN cache_entries \cup {name}
      ]_vars

\* C18 witness: a put has just evicted an entry from a cache that holds two
\* entries with different last-access times.
C18_Witness ==
    /\ cache_call.op = "put"
    /\ cache_call.evicted # {}
    /\ Len(access_times) >= 2
    /\ access_times[1][2] # access_times[2][2]

\* C19: an entry put at time t is returned by get at every time up to
\* t + ttl and is a miss at every later time, whatever hits came in between
\* (a hit does not renew the entry); the get that finds it expired removes
\* it from the entry map and from the last-access map.
C19_TtlCountsFromPut ==
    [][\A name \in CacheKeys :
          ( /\ cache_call'.op = "get" /\ cache_call'.name = name
            /\ name \in DOMAIN cache_entries
            /\ Get(name) )
          => IF clock <= cache_entries[name] + ttl_seconds
             THEN /\ cache_call'.result = "record"
                  /\ cache_entries' = cache_entries
             ELSE /\ cache_call'.result = "None"
                  /\ name \notin DOMAIN cache_entries'
                  /\ name \notin AccessKeys(access_times')
      ]_vars

\* C19 witness: a get has just found an entry expired and removed it, while
\* another entry, hit after it was put, stays.
C19_Witness ==
    /\ cache_call.op = "get"
    /\ cache_call.result = "None"
    /\ cache_call.evicted = {cache_call.name}
    /\ \E name \in DOMAIN cache_entries :
           AccessTime(access_times, name) > cache_entries[name]

\* C20: call_tool on a name that is not registered fails with the not-found
\* error; request-schema validation is not invoked, no tool body is started
\* and the registry is left as it was.
C20_UnknownToolNotFound ==
    [][\A name \in ToolNames, kwargs \in Kwargs, body \in Bodies :
          ( /\ registry_call'.op = "call_tool" /\ registry_call'.name = name
            /\ name \notin DOMAIN tools
            /\ CallTool(name, kwargs, body) )
          => /\ registry_call'.outcome = "ValueError: not registered"
             /\ ~registry_call'.validated
             /\ ~registry_call'.body_started
             /\ UNCHANGED <<tools, metadata, categories>>
      ]_vars

\* C20 witness: call_tool has just failed for a name that is not registered
\* while another tool is registered.
C20_Witness ==
    /\ registry_call.op = "call_tool"
    /\ registry_call.outcome = "ValueError: not registered"
    /\ registry_call.name \notin DOMAIN tools
    /\ DOMAIN tools # {}

\* C21: for every registered tool and every parameter mapping, the empty
\* one included, call_tool starts the tool body only after the mapping has
\* passed request-schema validation; a mapping that the schema refuses ends
\* in the validation failure and the body is not started.
C21_ValidationBeforeBody ==
    [][\A name \in ToolNames, kwargs \in Kwargs, body \in Bodies :
          ( /\ registry_call'.op = "call_tool" /\ registry_call'.name = name
            /\ name \in DOMAIN tools
            /\ CallTool(name, kwargs, body) )
          => /\ registry_call'.body_started
                   => /\ registry_call'.validated
                      /\ ValidateToolRequest(name, kwargs) = "None"
             /\ ValidateToolRequest(name, kwargs) # "None"
                   => /\ registry_call'.outcome = "ValueError: Input validation failed"
                      /\ ~registry_call'.body_started
      ]_vars

\* C22: when the body of a registered tool, a coroutine or a function run
\* on the worker pool, does not complete within the timeout, call_tool ends
\* with the timeout error and leaves no body running: no tool body takes a
\* step after its call has reported the timeout.
C22_TimeoutCancelsBody ==
    [][ /\ \A name \in ToolNames, kwargs \in Kwargs :
              ( /\ registry_call'.op = "call_tool" /\ registry_call'.name = name
                /\ registry_call'.body_started
                /\ CallTool(name, kwargs, "times out") )
              => /\ registry_call'.outcome = "TimeoutError"
                 /\ in_flight'[name] = 0
        /\ \A name \in ToolNames : ~WorkerThreadFinishes(name)
      ]_vars

\* C23: every exception a tool body raises, a ValueError included, leaves
\* call_tool as the UNEXPECTED_ERROR failure (which carries the message of
\* the original); no exception of a tool body leaves call_tool unchanged.
C23_BodyExceptionsAreWrapped ==
    [][\A name \in ToolNames, kwargs \in Kwargs,
          body \in {"raises ValueError", "raises Exception"} :
          ( /\ registry_call'.op = "call_tool" /\ registry_call'.name = name
            /\ registry_call'.body_started
            /\ CallTool(name, kwargs, body) )
          => registry_call'.outcome = "Exception: Unexpected error"
      ]_vars

RECURSIVE SumOver(_, _)
SumOver(S, f) ==
    IF S = {} THEN 0
    ELSE LET x == CHOOSE x \in S : TRUE IN f[x] + SumOver(S \ {x}, f)

\* get_registry_stats, lines 249-261
GetRegistryStats ==
    [total_tools |-> Cardinality(DOMAIN tools),
     categories |-> [c \in ToolCategory |-> Len(categories[c])]]

\* C24: after any sequence of register_tool and unregister_tool calls the
\* category index is a derived view: a name is listed under a category
\* exactly when it is registered with metadata of that category; the tool
\* map and the metadata map have the same keys, and the category counts of
\* get_registry_stats add up to total_tools.
C24_CategoryIndexIsDerivedView ==
    /\ DOMAIN tools = DOMAIN metadata
    /\ \A c \in ToolCategory, name \in ToolNames :
           InSeq(categories[c], name)
               <=> (name \in DOMAIN metadata /\ metadata[name].category = c)
    /\ SumOver(ToolCategory, GetRegistryStats.categories)
           = GetRegistryStats.total_tools

\* C25: an add_version call cancelled by the timeout, while it waits for the
\* lock or inside the critical section, does not leave the lock held: the
\* lock is only ever held by a task inside the critical section, it is not
\* with the cancelled task once that task has unwound, and every task that
\* waits for the lock gets it (unless it is cancelled itself).
C25_CancelLeavesLockFree ==
    /\ [](\A t \in Tasks : lock = t => pc[t] \in CriticalSection)
    /\ [][\A t \in Tasks : AV_Cancel(t) => lock' # t]_vars
    /\ \A t \in Tasks : (pc[t] = "acquire") ~> (lock = t \/ pc[t] = "idle")

\* C25 witness: a task has just been cancelled inside the critical section,
\* the lock is free and another task is waiting for it.
C25_Witness ==
    /\ last.outcome = "CancelledError: in the critical section"
    /\ lock = 0
    /\ \E t \in Tasks : pc[t] = "acquire"

\* the persisted document holds version i of the element with the counters
\* of its k-th observation or of a later one
PersistedUsage(name, i, k) ==
    /\ storage.exists
    /\ name \in DOMAIN storage.data
    /\ i <= Len(storage.data[name].versions)
    /\ LET persisted == storage.data[name].versions[i]
           obs == ObservationsOf(name, i)
       IN  /\ persisted.usage_count >= k
           /\ persisted.usage_count <= Len(obs)
           /\ persisted.success_rate =
                  Fraction(Successes(SubSeq(obs, 1, persisted.usage_count)),
                           persisted.usage_count)

Exceptions == {"ValueError: already exists", "ValueError: does not exist", "IndexError"}

\* the map is as it was, and if it agreed with the persisted document it
\* still does
NothingChanged ==
    /\ elements' = elements
    /\ storage = SaveToStorage(elements) => storage' = SaveToStorage(elements')

\* C27: whenever create_element, add_version or approve_version ends with
\* an exception, the map is exactly as before the call (no status, no
\* active_version changed, no version added) and still agrees with what
\* was last persisted.
C27_FailureChangesNothing ==
    [][/\ \A name \in ElementNames, created_by \in Creators :
              ( /\ last'.op = "create_element" /\ last'.name = name
                /\ last'.outcome \in Exceptions
                /\ CreateElement(name, created_by) )
              => NothingChanged
       /\ \A name \in Names, created_by \in Creators, confidence_score \in Confidences :
              ( /\ last'.op = "add_version" /\ last'.name = name
                /\ last'.outcome \in Exceptions
                /\ AddVersion(name, created_by, confidence_score) )
              => NothingChanged
       /\ \A name \in Names, version \in VersionArgs, approver \in Approvers :
              ( /\ last'.op = "approve_version" /\ last'.name = name
                /\ last'.outcome \in Exceptions
                /\ ApproveVersion(name, version, approver) )
              => NothingChanged
      ]_vars

\* C28: whenever active_version of an element is v > 0, the version
\* numbered v exists and has status ACTIVE: what get_active_version hands
\* out (and the get_element tool reports as found) is never a DEPRECATED
\* or DRAFT version.
C28_ActiveVersionIsActive ==
    \A name \in DOMAIN elements :
        elements[name].active_version > 0
            => /\ GetActiveVersion(elements[name]) = elements[name].active_version
               /\ Versions(name)[GetActiveVersion(elements[name])].status = "ACTIVE"

\* the lifecycle order of LocatorStatus: DRAFT, then ACTIVE, then DEPRECATED
StatusRank(status) ==
    CASE status = "DRAFT" -> 1
      [] status = "ACTIVE" -> 2
      [] status = "DEPRECATED" -> 3
      [] OTHER -> 0

GetPendingApprovals ==
    UNION {{<<name, i>> : i \in {j \in 1..Len(Versions(name)) :
                                    Versions(name)[j].approval_status = "PENDING"}} :
           name \in DOMAIN elements}

\* the stored versions that were never activated: by C29 those still DRAFT
NeverActivated ==
    UNION {{<<name, i>> : i \in {j \in 1..Len(Versions(name)) :
                                    Versions(name)[j].status = "DRAFT"}} :
           name \in DOMAIN elements}

====
